---------------------------- MODULE Spec2Model ----------------------------
(***************************************************************************)
(* Model of the SP1 format mapping core (src/src/utils/sp1Parser.ts):      *)
(* parseSP1File, generateSP1Content, convertToGeoJSON, convertToCSV and    *)
(* parseCSVToSP1.                                                          *)
(*                                                                         *)
(* A JavaScript string is a sequence of one-character strings, so that     *)
(* split, trim, includes, startsWith and the template literals are         *)
(* computed character by character.  A JavaScript number is a record       *)
(* [k, v]: k is "fin" (v counts units of 10^-FracDigits), "nan", "inf",    *)
(* "ninf", or "undef" for an absent optional number.                       *)
(***************************************************************************)
EXTENDS Integers, Sequences, FiniteSets, TLC

\* ------------------------------------------------------------------------
\* Bounds of the model
\* ------------------------------------------------------------------------

\* Largest number of lines of an SP1 input text.
MaxLines == 3

\* Largest number of lines of a CSV input text.
MaxCsvLines == 3

\* ------------------------------------------------------------------------
\* Strings
\* ------------------------------------------------------------------------

Chars(s) == [i \in 1..Len(s) |-> SubSeq(s, i, i)]

\* The value of a missing string (an absent optional field, an array read
\* past its end).  No string equals it: every element of a string is one
\* character long.
Undefined == <<"undefined">>

WhiteSpace == {" ", "\t", "\r", "\n"}

IsWhiteSpace(c) == c \in WhiteSpace

RECURSIVE TrimStart(_)
TrimStart(s) ==
  IF s # <<>> /\ IsWhiteSpace(Head(s)) THEN TrimStart(Tail(s)) ELSE s

RECURSIVE TrimEnd(_)
TrimEnd(s) ==
  IF s # <<>> /\ IsWhiteSpace(s[Len(s)])
  THEN TrimEnd(SubSeq(s, 1, Len(s) - 1))
  ELSE s

\* String.prototype.trim
Trim(s) == TrimEnd(TrimStart(s))

\* The first index from i on whose character is in chars (member = TRUE) or
\* is not in chars (member = FALSE), Len(s) + 1 if none
IndexFrom(s, i, chars, member) ==
  IF \E j \in i..Len(s) : (s[j] \in chars) = member
  THEN CHOOSE j \in i..Len(s) :
         /\ (s[j] \in chars) = member
         /\ \A k \in i..(j - 1) : (s[k] \in chars) # member
  ELSE Len(s) + 1

RECURSIVE SplitFrom(_, _, _)
\* The fields of s from index i on
SplitFrom(s, sep, i) ==
  LET j == IndexFrom(s, i, {sep}, TRUE)
  IN  IF j > Len(s) THEN <<SubSeq(s, i, Len(s))>>
      ELSE <<SubSeq(s, i, j - 1)>> \o SplitFrom(s, sep, j + 1)

\* String.prototype.split with a one-character separator
Split(s, sep) == SplitFrom(s, sep, 1)

RECURSIVE SplitSpaceFrom(_, _)
\* The fields of s from index i on, a separator being a run of white space
SplitSpaceFrom(s, i) ==
  LET j == IndexFrom(s, i, WhiteSpace, TRUE)
  IN  IF j > Len(s) THEN <<SubSeq(s, i, Len(s))>>
      ELSE <<SubSeq(s, i, j - 1)>>
           \o SplitSpaceFrom(s, IndexFrom(s, j, WhiteSpace, FALSE))

\* String.prototype.split(/\s+/)
SplitSpace(s) == SplitSpaceFrom(s, 1)

\* String.prototype.includes with a one-character argument
Includes(s, c) == \E i \in 1..Len(s) : s[i] = c

\* String.prototype.startsWith with a one-character argument
StartsWith(s, c) == s # <<>> /\ Head(s) = c

UpperLetters == Chars("ABCDEFGHIJKLMNOPQRSTUVWXYZ")
LowerLetters == Chars("abcdefghijklmnopqrstuvwxyz")

ToLowerChar(c) ==
  IF \E i \in 1..Len(UpperLetters) : UpperLetters[i] = c
  THEN LowerLetters[CHOOSE i \in 1..Len(UpperLetters) : UpperLetters[i] = c]
  ELSE c

\* String.prototype.toLowerCase
ToLowerCase(s) == [i \in 1..Len(s) |-> ToLowerChar(s[i])]

\* A regular expression /^word$/i tested against a string
MatchesWord(s, word) == ToLowerCase(s) = Chars(word)

MapTrim(parts) == [i \in 1..Len(parts) |-> Trim(parts[i])]

RECURSIVE Join(_, _)
\* Array.prototype.join
Join(parts, sep) ==
  IF parts = <<>> THEN <<>>
  ELSE IF Len(parts) = 1 THEN parts[1]
  ELSE parts[1] \o sep \o Join(Tail(parts), sep)

\* content.split('\n').map(line => line.trim()).filter(Boolean)
NonBlankLines(content) ==
  SelectSeq(MapTrim(Split(content, "\n")), LAMBDA l : l # <<>>)

\* An array read arr[i] with a 0-based index: undefined outside the array
At(arr, i) == IF i + 1 \in 1..Len(arr) THEN arr[i + 1] ELSE Undefined

\* Array.prototype.findIndex with the test /^(w1|w2|..)$/i, 0-based, -1 when
\* no element matches
FindIndex(arr, words) ==
  IF \E i \in 1..Len(arr) : \E w \in words : MatchesWord(arr[i], w)
  THEN (CHOOSE i \in 1..Len(arr) :
          /\ \E w \in words : MatchesWord(arr[i], w)
          /\ \A j \in 1..(i - 1) : \A w \in words : ~MatchesWord(arr[j], w)) - 1
  ELSE -1

\* A string in a template literal: undefined prints as "undefined"
TemplateString(s) == IF s = Undefined THEN Chars("undefined") ELSE s

\* Truthiness of a string or undefined
TruthyString(s) == s # Undefined /\ s # <<>>

\* ------------------------------------------------------------------------
\* Numbers
\* ------------------------------------------------------------------------

\* Decimal places of x and y in generateSP1Content: toFixed(6)
FracDigits == 6

\* Decimal places of elevation in generateSP1Content: toFixed(3)
ElevDigits == 3

\* A finite number is held in units of 10^-FracDigits.
Scale == 10 ^ FracDigits

Num(k, v) == [k |-> k, v |-> v]
NaN == Num("nan", 0)
UndefinedNumber == Num("undef", 0)
Finite(v) == Num("fin", v)

DigitChars == Chars("0123456789")
IsDigit(c) == \E d \in 1..10 : DigitChars[d] = c
DigitVal(c) == (CHOOSE d \in 1..10 : DigitChars[d] = c) - 1

RECURSIVE DigitsEnd(_, _)
\* The index after the run of digits of s that starts at i
DigitsEnd(s, i) ==
  IF i <= Len(s) /\ IsDigit(s[i]) THEN DigitsEnd(s, i + 1) ELSE i

RECURSIVE DigitsValue(_, _, _)
\* The value of the digits s[i .. j-1]
DigitsValue(s, i, j) ==
  IF j <= i THEN 0
  ELSE 10 * DigitsValue(s, i, j - 1) + DigitVal(s[j - 1])

HasAt(s, i, word) ==
  Len(s) >= i + Len(word) - 1 /\ SubSeq(s, i, i + Len(word) - 1) = word

\* The value of the fraction digits s[a .. b-1] in units of 10^-FracDigits;
\* digits past FracDigits are dropped
FractionValue(s, a, b) ==
  LET kept == IF b - a > FracDigits THEN FracDigits ELSE b - a
  IN  DigitsValue(s, a, a + kept) * (10 ^ (FracDigits - kept))

\* The exponent part, if any, that starts at e: e [+-] digits.  q is the
\* index of its first digit.
ApplyExponent(t, e, q, mant) ==
  IF DigitsEnd(t, q) = q THEN Finite(mant)
  ELSE IF t[e + 1] = "-"
       THEN Finite(mant \div (10 ^ DigitsValue(t, q, DigitsEnd(t, q))))
       ELSE Finite(mant * (10 ^ DigitsValue(t, q, DigitsEnd(t, q))))

ParseExponent(t, e, mant) ==
  IF e <= Len(t) /\ t[e] \in {"e", "E"}
  THEN ApplyExponent(t, e,
         IF e + 1 <= Len(t) /\ t[e + 1] \in {"-", "+"} THEN e + 2 ELSE e + 1,
         mant)
  ELSE Finite(mant)

\* The digits t[p .. e1-1] are followed by a point and the digits up to e2
ParseFraction(t, p, e1, e2) ==
  IF e1 = p /\ e2 = e1 + 1 THEN NaN
  ELSE ParseExponent(t, e2,
         DigitsValue(t, p, e1) * Scale + FractionValue(t, e1 + 1, e2))

\* The digits of the integer part start at p and end before e1
ParseDecimal(t, p, e1) ==
  IF e1 <= Len(t) /\ t[e1] = "."
  THEN ParseFraction(t, p, e1, DigitsEnd(t, e1 + 1))
  ELSE IF e1 = p THEN NaN
  ELSE ParseExponent(t, e1, DigitsValue(t, p, e1) * Scale)

ParseUnsigned(t, p) ==
  IF HasAt(t, p, Chars("Infinity")) THEN Num("inf", 0)
  ELSE ParseDecimal(t, p, DigitsEnd(t, p))

Negate(n) ==
  CASE n.k = "fin" -> Finite(0 - n.v)
    [] n.k = "inf" -> Num("ninf", 0)
    [] OTHER -> n

\* The global parseFloat: the longest prefix of the trimmed argument that is
\* a decimal literal ([+-] digits [. digits] [e [+-] digits], or Infinity);
\* NaN when there is none.  An undefined argument reads as "undefined".
ParseTrimmed(t) ==
  IF StartsWith(t, "-") THEN Negate(ParseUnsigned(t, 2))
  ELSE IF StartsWith(t, "+") THEN ParseUnsigned(t, 2)
  ELSE ParseUnsigned(t, 1)

ParseFloat(s) == ParseTrimmed(TrimStart(TemplateString(s)))

\* The global isNaN on a number
IsNaN(n) == n.k = "nan"

\* Truthiness of a number or undefined: 0, NaN and undefined are falsy
TruthyNumber(n) == n.k \in {"inf", "ninf"} \/ (n.k = "fin" /\ n.v # 0)

RECURSIVE NatString(_)
NatString(n) ==
  IF n < 10 THEN <<DigitChars[n + 1]>>
  ELSE NatString(n \div 10) \o <<DigitChars[(n % 10) + 1]>>

RECURSIVE PadDigits(_, _)
\* The last w digits of n, with leading zeros
PadDigits(n, w) ==
  IF w = 0 THEN <<>>
  ELSE PadDigits(n \div 10, w - 1) \o <<DigitChars[(n % 10) + 1]>>

RECURSIVE StripZeros(_)
StripZeros(s) ==
  IF s # <<>> /\ s[Len(s)] = "0"
  THEN StripZeros(SubSeq(s, 1, Len(s) - 1))
  ELSE s

Abs(v) == IF v < 0 THEN 0 - v ELSE v

\* Number.prototype.toFixed(d), d <= FracDigits
ToFixed(n, d) ==
  LET unit == 10 ^ (FracDigits - d)
      q == (Abs(n.v) + (unit \div 2)) \div unit
  IN  CASE n.k = "nan" -> Chars("NaN")
        [] n.k = "inf" -> Chars("Infinity")
        [] n.k = "ninf" -> Chars("-Infinity")
        [] OTHER ->
             (IF n.v < 0 THEN <<"-">> ELSE <<>>)
             \o NatString(q \div (10 ^ d))
             \o (IF d > 0 THEN <<".">> \o PadDigits(q % (10 ^ d), d)
                 ELSE <<>>)

\* A number in a template literal (Number::toString); undefined prints as
\* "undefined"
NumberString(n) ==
  CASE n.k = "nan" -> Chars("NaN")
    [] n.k = "inf" -> Chars("Infinity")
    [] n.k = "ninf" -> Chars("-Infinity")
    [] n.k = "undef" -> Chars("undefined")
    [] OTHER ->
         (IF n.v < 0 THEN <<"-">> ELSE <<>>)
         \o NatString(Abs(n.v) \div Scale)
         \o (IF Abs(n.v) % Scale = 0 THEN <<>>
             ELSE <<".">> \o StripZeros(PadDigits(Abs(n.v) % Scale, FracDigits)))

\* ------------------------------------------------------------------------
\* Objects
\* ------------------------------------------------------------------------

\* An object is the sequence of its <<key, value>> properties in the order
\* they were created.

ObjHas(obj, key) == \E i \in 1..Len(obj) : obj[i][1] = key

ObjGet(obj, key) == obj[CHOOSE i \in 1..Len(obj) : obj[i][1] = key][2]

\* obj[key] = val: an existing property keeps its place
ObjSet(obj, key, val) ==
  IF ObjHas(obj, key)
  THEN [i \in 1..Len(obj) |->
          IF obj[i][1] = key THEN <<key, val>> ELSE obj[i]]
  ELSE Append(obj, <<key, val>>)

\* A key that is an array index ("0", "7", "12"): such keys are enumerated
\* first, in ascending numeric order
IsIndexKey(key) ==
  /\ key # <<>>
  /\ \A i \in 1..Len(key) : IsDigit(key[i])
  /\ (Len(key) = 1 \/ key[1] # "0")

\* The properties of an object in the order Object.keys, Object.values and
\* the spread syntax enumerate them
OwnEntries(obj) ==
  SortSeq(SelectSeq(obj, LAMBDA e : IsIndexKey(e[1])),
          LAMBDA a, b : DigitsValue(a[1], 1, Len(a[1]) + 1)
                        < DigitsValue(b[1], 1, Len(b[1]) + 1))
  \o SelectSeq(obj, LAMBDA e : ~IsIndexKey(e[1]))

ObjectKeys(obj) == [i \in 1..Len(obj) |-> OwnEntries(obj)[i][1]]

ObjectValues(obj) == [i \in 1..Len(obj) |-> OwnEntries(obj)[i][2]]

\* ------------------------------------------------------------------------
\* Data model: SP1Point, SP1Header, SP1Data
\* ------------------------------------------------------------------------

\* An optional attributes object: def is FALSE when the field is absent
NoAttributes == [def |-> FALSE, kv |-> <<>>]
Attributes(kv) == [def |-> TRUE, kv |-> kv]

\* header = {}: every optional field absent
EmptyHeader ==
  [version |-> Undefined, survey |-> Undefined, datum |-> Undefined,
   projection |-> Undefined, comments |-> [def |-> FALSE, list |-> <<>>]]

SP1Data(header, points) == [header |-> header, points |-> points]

\* ------------------------------------------------------------------------
\* parseSP1File
\* ------------------------------------------------------------------------

\* The locals of parseSP1File before its loop
SP1Start == [inHeader |-> TRUE, header |-> EmptyHeader, points |-> <<>>]

\* A comment line: its text after the marker is pushed onto header.comments
CommentLine(st, line) ==
  [st EXCEPT !.header.comments =
     [def |-> TRUE, list |-> Append(@.list, Trim(Tail(line)))]]

\* const [key, value] = line.split(':').map(s => s.trim())
HeaderKey(line) == MapTrim(Split(line, ":"))[1]

HeaderValue(line) == MapTrim(Split(line, ":"))[2]

\* switch (key.toLowerCase()): a recognized key stores the value
HeaderSwitch(st, line) ==
  LET key == ToLowerCase(HeaderKey(line))
      value == HeaderValue(line)
  IN  CASE key = Chars("version") -> [st EXCEPT !.header.version = value]
        [] key = Chars("survey") -> [st EXCEPT !.header.survey = value]
        [] key = Chars("datum") -> [st EXCEPT !.header.datum = value]
        [] key = Chars("projection") ->
             [st EXCEPT !.header.projection = value]
        [] OTHER -> st

\* The point of a data line with at least 3 parts
SP1Point(parts) ==
  [id |-> At(parts, 0),
   x |-> ParseFloat(At(parts, 1)),
   y |-> ParseFloat(At(parts, 2)),
   elevation |->
     IF Len(parts) > 3 /\ ~IsNaN(ParseFloat(At(parts, 3)))
     THEN ParseFloat(At(parts, 3))
     ELSE UndefinedNumber,
   attributes |->
     IF Len(parts) > 4
     THEN Attributes([j \in 1..(Len(parts) - 4) |->
                        <<Chars("attr") \o NatString(j), parts[j + 4]>>])
     ELSE NoAttributes]

\* DataLine with inHeader = false moved into the if (parts.length >= 3)
DataLineKeepsHeaderMode(st, line) ==
  LET parts == SplitSpace(line)
  IN  IF Len(parts) >= 3
      THEN [st EXCEPT !.inHeader = FALSE,
                      !.points = Append(@, SP1Point(parts))]
      ELSE st

\* Any other line: header mode ends and the line is parsed as a data line,
\* which gives a point when it has at least 3 parts
DataLine(st, line) ==
  LET parts == SplitSpace(line)
  IN  [st EXCEPT !.inHeader = FALSE,
                 !.points = IF Len(parts) >= 3
                            THEN Append(@, SP1Point(parts))
                            ELSE @]

\* HeaderLine without its continue: the line is then read as a data line too
HeaderLineNoContinue(st, line) == DataLine(HeaderSwitch(st, line), line)

\* A line with a colon read in header mode: the switch, then continue
HeaderLine(st, line) == HeaderSwitch(st, line)

\* One iteration of the loop over the lines
SP1Line(st, line) ==
  IF line = <<>> \/ StartsWith(line, "#")
  THEN IF StartsWith(line, "#") THEN CommentLine(st, line) ELSE st
  ELSE IF st.inHeader /\ Includes(line, ":")
       THEN HeaderLine(st, line)
       ELSE DataLine(st, line)

RECURSIVE SP1Loop(_, _, _)
SP1Loop(st, lines, i) ==
  IF i > Len(lines) THEN st
  ELSE SP1Loop(SP1Line(st, lines[i]), lines, i + 1)

\* The whole function, from its argument to its result
ParseSP1File(content) ==
  LET st == SP1Loop(SP1Start, NonBlankLines(content), 1)
  IN  SP1Data(st.header, st.points)

\* ------------------------------------------------------------------------
\* generateSP1Content
\* ------------------------------------------------------------------------

RECURSIVE Concat(_)
\* The concatenation of a sequence of strings
Concat(parts) ==
  IF parts = <<>> THEN <<>> ELSE Head(parts) \o Concat(Tail(parts))

\* The comment lines, each prefixed "# ", when header.comments is present
CommentsBlock(header) ==
  IF header.comments.def
  THEN Join([i \in 1..Len(header.comments.list) |->
               Chars("# ") \o header.comments.list[i]], <<"\n">>)
       \o <<"\n">>
  ELSE <<>>

\* if (value) content += `Label: ${value}\n`
HeaderField(label, value) ==
  IF TruthyString(value)
  THEN Chars(label) \o Chars(": ") \o value \o <<"\n">>
  ELSE <<>>

\* The tab-delimited line of one point, without its line end
PointLine(point) ==
  TemplateString(point.id)
  \o <<"\t">> \o ToFixed(point.x, FracDigits)
  \o <<"\t">> \o ToFixed(point.y, FracDigits)
  \o (IF point.elevation.k # "undef"
      THEN <<"\t">> \o ToFixed(point.elevation, ElevDigits)
      ELSE <<>>)
  \o (IF point.attributes.def
      THEN Concat([i \in 1..Len(point.attributes.kv) |->
                     <<"\t">>
                     \o TemplateString(ObjectValues(point.attributes.kv)[i])])
      ELSE <<>>)

GenerateSP1Content(data) ==
  CommentsBlock(data.header)
  \o HeaderField("Version", data.header.version)
  \o HeaderField("Survey", data.header.survey)
  \o HeaderField("Datum", data.header.datum)
  \o HeaderField("Projection", data.header.projection)
  \o <<"\n">>
  \o Concat([i \in 1..Len(data.points) |->
               PointLine(data.points[i]) \o <<"\n">>])

\* ------------------------------------------------------------------------
\* convertToGeoJSON
\* ------------------------------------------------------------------------

\* A property value of a Feature: a string, a number or undefined
JString(s) == [t |-> "string", s |-> s, n |-> UndefinedNumber]
JNumber(n) == [t |-> "number", s |-> <<>>, n |-> n]
JUndefined == [t |-> "undefined", s |-> <<>>, n |-> UndefinedNumber]
JOfString(s) == IF s = Undefined THEN JUndefined ELSE JString(s)
JOfNumber(n) == IF n.k = "undef" THEN JUndefined ELSE JNumber(n)

\* coordinates: [point.x, point.y, point.elevation || 0]
CoordinatesNoDefault(point) == <<point.x, point.y, point.elevation>>

Coordinates(point) ==
  <<point.x, point.y,
    IF TruthyNumber(point.elevation) THEN point.elevation ELSE Finite(0)>>

RECURSIVE Spread(_, _)
\* { ...obj, ...entries }: each entry is set in turn
Spread(obj, entries) ==
  IF entries = <<>> THEN obj
  ELSE Spread(ObjSet(obj, entries[1][1], JOfString(entries[1][2])),
              Tail(entries))

\* properties: { id: point.id, elevation: point.elevation,
\*               ...point.attributes }
Properties(point) ==
  Spread(<< <<Chars("id"), JOfString(point.id)>>,
            <<Chars("elevation"), JOfNumber(point.elevation)>> >>,
         IF point.attributes.def THEN OwnEntries(point.attributes.kv)
         ELSE <<>>)

Feature(point) ==
  [type |-> "Feature",
   geometry |-> [type |-> "Point", coordinates |-> Coordinates(point)],
   properties |-> Properties(point)]

ConvertToGeoJSON(data) ==
  [type |-> "FeatureCollection",
   features |-> [i \in 1..Len(data.points) |-> Feature(data.points[i])],
   crs |-> [type |-> "name",
            properties |->
              [name |-> IF TruthyString(data.header.projection)
                        THEN data.header.projection
                        ELSE Chars("EPSG:4326")]]]

\* ------------------------------------------------------------------------
\* convertToCSV
\* ------------------------------------------------------------------------

\* The characters of the model in the order of their code units (the grave
\* accent, which no string of the model holds, is left out)
Ascii ==
  Chars("\t\n\r !\"#$%&'()*+,-./0123456789:;<=>?@ABCDEFGHIJKLMNOPQRSTUVWXYZ[\\]^_abcdefghijklmnopqrstuvwxyz{|}~")

CharCode(c) == CHOOSE i \in 1..Len(Ascii) : Ascii[i] = c

RECURSIVE StringLess(_, _)
\* The order of Array.prototype.sort without a comparator: by code units
StringLess(a, b) ==
  IF b = <<>> THEN FALSE
  ELSE IF a = <<>> THEN TRUE
  ELSE IF Head(a) = Head(b) THEN StringLess(Tail(a), Tail(b))
  ELSE CharCode(Head(a)) < CharCode(Head(b))

RECURSIVE AddAll(_, _)
\* keys.forEach(key => set.add(key)) on a Set kept in insertion order
AddAll(set, keys) ==
  IF keys = <<>> THEN set
  ELSE AddAll(IF \E i \in 1..Len(set) : set[i] = Head(keys)
              THEN set ELSE Append(set, Head(keys)),
              Tail(keys))

RECURSIVE AllAttributesFrom(_, _, _)
AllAttributesFrom(points, i, set) ==
  IF i > Len(points) THEN set
  ELSE AllAttributesFrom(points, i + 1,
         IF points[i].attributes.def
         THEN AddAll(set, ObjectKeys(points[i].attributes.kv))
         ELSE set)

\* allAttributes after the forEach over the points
AllAttributes(points) == AllAttributesFrom(points, 1, <<>>)

\* Array.from(allAttributes).sort()
AttributeKeys(points) == SortSeq(AllAttributes(points), StringLess)

\* Properties every object literal inherits from Object.prototype: a read
\* obj[key] finds them when obj has no own property of that name
InheritedKeys ==
  {Chars("constructor"), Chars("toString"), Chars("toLocaleString"),
   Chars("valueOf"), Chars("hasOwnProperty"), Chars("isPrototypeOf"),
   Chars("propertyIsEnumerable")}

\* An inherited property in a template literal: the text of a built-in
\* function
InheritedString(key) ==
  Chars("function ")
  \o (IF key = Chars("constructor") THEN Chars("Object") ELSE key)
  \o Chars("() { [native code] }")

\* `${point.attributes?.[key] || ''}`
AttributeCell(point, key) ==
  IF ~point.attributes.def THEN <<>>
  ELSE IF ObjHas(point.attributes.kv, key)
       THEN (IF TruthyString(ObjGet(point.attributes.kv, key))
             THEN ObjGet(point.attributes.kv, key) ELSE <<>>)
       ELSE IF key \in InheritedKeys THEN InheritedString(key)
       ELSE <<>>

\* `${point.elevation || ''}`
ElevationCell(point) ==
  IF TruthyNumber(point.elevation) THEN NumberString(point.elevation)
  ELSE <<>>

\* One data row, without its line end
CsvRow(point, keys) ==
  TemplateString(point.id)
  \o <<",">> \o NumberString(point.x)
  \o <<",">> \o NumberString(point.y)
  \o <<",">> \o ElevationCell(point)
  \o Concat([i \in 1..Len(keys) |-> <<",">> \o AttributeCell(point, keys[i])])

\* The header row, without its line end
CsvHeaderRow(keys) ==
  Chars("ID,X,Y,Elevation")
  \o Concat([i \in 1..Len(keys) |-> <<",">> \o keys[i]])

ConvertToCSV(data) ==
  LET keys == AttributeKeys(data.points)
  IN  CsvHeaderRow(keys) \o <<"\n">>
      \o Concat([i \in 1..Len(data.points) |->
                   CsvRow(data.points[i], keys) \o <<"\n">>])

\* ------------------------------------------------------------------------
\* parseCSVToSP1
\* ------------------------------------------------------------------------

\* headerLine.split(',').map(col => col.trim())
CsvColumns(headerLine) == MapTrim(Split(headerLine, ","))

IdIndex(columns) == FindIndex(columns, {"id"})
XIndex(columns) == FindIndex(columns, {"x"})
YIndex(columns) == FindIndex(columns, {"y"})
ElevIndex(columns) ==
  FindIndex(columns, {"elevation", "z"})

\* if (idIndex === -1 || xIndex === -1 || yIndex === -1) throw
MissingColumnsAllAbsent(columns) ==
  IdIndex(columns) = -1 /\ XIndex(columns) = -1 /\ YIndex(columns) = -1

MissingColumns(columns) ==
  IdIndex(columns) = -1 \/ XIndex(columns) = -1 \/ YIndex(columns) = -1

\* attributes[key] = val on an object literal: "__proto__" names the
\* prototype accessor, and a string assigned to it is dropped
Assign(obj, key, val) ==
  IF key = Chars("__proto__") THEN obj ELSE ObjSet(obj, key, val)

RECURSIVE CsvAttributesFrom(_, _, _, _)
\* The loop over the columns that collects the other attributes
CsvAttributesFrom(columns, values, j, attributes) ==
  IF j >= Len(columns) THEN attributes
  ELSE CsvAttributesFrom(columns, values, j + 1,
         IF /\ j # IdIndex(columns) /\ j # XIndex(columns)
            /\ j # YIndex(columns) /\ j # ElevIndex(columns)
            /\ TruthyString(At(values, j))
         THEN Assign(attributes, At(columns, j), At(values, j))
         ELSE attributes)

\* The point of a data row with at least 3 values
CsvPoint(columns, values) ==
  LET elev == At(values, ElevIndex(columns))
      attributes == CsvAttributesFrom(columns, values, 0, <<>>)
  IN  [id |-> At(values, IdIndex(columns)),
       x |-> ParseFloat(At(values, XIndex(columns))),
       y |-> ParseFloat(At(values, YIndex(columns))),
       elevation |->
         IF /\ ElevIndex(columns) # -1
            /\ TruthyString(elev)
            /\ ~IsNaN(ParseFloat(elev))
         THEN ParseFloat(elev)
         ELSE UndefinedNumber,
       attributes |->
         IF Len(attributes) > 0 THEN Attributes(attributes)
         ELSE NoAttributes]

\* One iteration of the loop over the data rows
CsvLine(points, columns, line) ==
  LET values == MapTrim(Split(line, ","))
  IN  IF Len(values) < 3 THEN points
      ELSE Append(points, CsvPoint(columns, values))

RECURSIVE CsvLoop(_, _, _, _)
CsvLoop(points, columns, lines, i) ==
  IF i > Len(lines) THEN points
  ELSE CsvLoop(CsvLine(points, columns, lines[i]), columns, lines, i + 1)

\* ------------------------------------------------------------------------
\* JSON.stringify(data, null, 2) of a GeoJSON object
\* ------------------------------------------------------------------------

Indent(n) == [k \in 1..n |-> " "]

\* One character of a JSON string literal
JSONChar(c) ==
  CASE c = "\"" -> Chars("\\\"")
    [] c = "\\" -> Chars("\\\\")
    [] c = "\n" -> Chars("\\n")
    [] c = "\r" -> Chars("\\r")
    [] c = "\t" -> Chars("\\t")
    [] OTHER -> <<c>>

JSONString(s) ==
  <<"\"">> \o Concat([k \in 1..Len(s) |-> JSONChar(s[k])]) \o <<"\"">>

\* A number that is not finite is written null
JSONNumber(n) == IF n.k = "fin" THEN NumberString(n) ELSE Chars("null")

\* open, the items one per line at depth + 2, close at depth; an empty
\* array or object is written without a line break
JSONBlock(open, close, items, depth) ==
  IF items = <<>> THEN <<open, close>>
  ELSE <<open, "\n">> \o Indent(depth + 2)
       \o Join(items, <<",", "\n">> \o Indent(depth + 2))
       \o <<"\n">> \o Indent(depth) \o <<close>>

JSONMember(key, value) == JSONString(key) \o Chars(": ") \o value

\* The members of properties: a member whose value is undefined is left out
JSONProperties(properties, depth) ==
  LET entries == SelectSeq(OwnEntries(properties),
                           LAMBDA e : e[2].t # "undefined")
  IN  JSONBlock("{", "}",
        [k \in 1..Len(entries) |->
           JSONMember(entries[k][1],
                      IF entries[k][2].t = "string"
                      THEN JSONString(entries[k][2].s)
                      ELSE JSONNumber(entries[k][2].n))],
        depth)

JSONGeometry(geometry, depth) ==
  JSONBlock("{", "}",
    <<JSONMember(Chars("type"), JSONString(Chars(geometry.type))),
      JSONMember(Chars("coordinates"),
        JSONBlock("[", "]",
          [k \in 1..Len(geometry.coordinates) |->
             JSONNumber(geometry.coordinates[k])],
          depth + 2))>>,
    depth)

JSONFeature(feature, depth) ==
  JSONBlock("{", "}",
    <<JSONMember(Chars("type"), JSONString(Chars(feature.type))),
      JSONMember(Chars("geometry"), JSONGeometry(feature.geometry, depth + 2)),
      JSONMember(Chars("properties"),
                 JSONProperties(feature.properties, depth + 2))>>,
    depth)

JSONCrs(crs, depth) ==
  JSONBlock("{", "}",
    <<JSONMember(Chars("type"), JSONString(Chars(crs.type))),
      JSONMember(Chars("properties"),
        JSONBlock("{", "}",
          <<JSONMember(Chars("name"), JSONString(crs.properties.name))>>,
          depth + 2))>>,
    depth)

JSONStringify(geo) ==
  JSONBlock("{", "}",
    <<JSONMember(Chars("type"), JSONString(Chars(geo.type))),
      JSONMember(Chars("features"),
        JSONBlock("[", "]",
          [k \in 1..Len(geo.features) |-> JSONFeature(geo.features[k], 4)],
          2)),
      JSONMember(Chars("crs"), JSONCrs(geo.crs, 2))>>,
    0)

\* ------------------------------------------------------------------------
\* Inputs
\* ------------------------------------------------------------------------

\* The lines an SP1 input text is made of: a comment, header lines (one with
\* a second colon), a line too short to be a point, a point whose id holds a
\* colon, a point with elevation 0, a point with an attribute and no
\* elevation, a point whose 4th token is Infinity, and a blank line.
SP1InputLines ==
  {Chars("# c"), Chars("Survey: a b"), Chars("Projection: EPSG:4326"),
   Chars("x"), Chars("A:1 2 3"), Chars("P1 1 2 0"), Chars(" P2 1.5 2 z a"),
   Chars("P3 1 2 Infinity"), Chars("")}

\* The lines a CSV input text is made of: column rows (with a second id
\* column, with the ID column last, without an ID column, with a column
\* named as a property of Object.prototype) and data rows (four cells, an
\* empty id cell, an empty cell before the last, too short, blank).
CsvInputLines ==
  {Chars("ID,X,Y,id"), Chars("x, y ,Z,ID"), Chars("Name,X,Y"),
   Chars("ID,X,Y,constructor,b"),
   Chars("P1,1,2,Q"), Chars(",3,4"), Chars("P2,1,2,,w"), Chars("P3,5"),
   Chars("")}

\* The texts of at most n lines drawn from a set of lines
Texts(lineSet, n) ==
  {Join(ls, <<"\n">>) : ls \in UNION {[1..k -> lineSet] : k \in 0..n}}

\* The header handleCSVExport passes to parseCSVToSP1
CsvExportHeader ==
  [EmptyHeader EXCEPT !.version = Chars("1.0"),
                      !.survey = Chars("Converted from CSV"),
                      !.datum = Chars("WGS84")]

EmptyCsvMessage == "Empty CSV file"
MissingColumnsMessage == "CSV must contain ID, X, and Y columns"

\* ------------------------------------------------------------------------
\* State
\* ------------------------------------------------------------------------

VARIABLES
  fn,        \* the reader that is called: "parseSP1File" or "parseCSVToSP1"
  content,   \* its argument
  pc,        \* "call", "loop", "returned", "thrown", "exported", "reparsed"
  lines,     \* the trimmed non-blank lines of content
  i,         \* the 1-based index of the next line the loop reads
  inHeader,  \* parseSP1File: the header mode flag
  header,    \* the header of the result
  points,    \* the points of the result
  columns,   \* parseCSVToSP1: the column names
  error,     \* the message of the Error thrown, "" when none
  outKind,   \* the writer applied to the result: "none", "SP1", "CSV", "GeoJSON"
  text,      \* the text generateSP1Content or convertToCSV returned
  geojson,   \* the object convertToGeoJSON returned
  reparsed   \* parseSP1File of the text generateSP1Content returned

\* The state of the SP1Converter component
VARIABLES
  tab,           \* the tab shown: "import" or "export"
  importStatus,  \* 'idle', 'processing', 'success' or 'error'
  exportStatus,  \* 'idle', 'processing', 'success' or 'error'
  convertedData, \* null, a GeoJSON object or an SP1 text
  fileName,      \* the name set when a file was selected
  outputFormat,  \* '', 'GeoJSON' or 'SP1'
  errorMessage,  \* the message of the last failure, '' at first
  reads,         \* the calls suspended at await file.text()
  download,      \* the last (content, filename, mimeType) handed to the browser
  lastImport,    \* history: the GeoJSON of the last SP1 import that succeeded
  lastExport     \* history: the text and .sp1 name of the last CSV export
                 \* that succeeded

coreVars ==
  <<fn, content, pc, lines, i, inHeader, header, points, columns, error,
    outKind, text, geojson, reparsed>>

uiVars ==
  <<tab, importStatus, exportStatus, convertedData, fileName, outputFormat,
    errorMessage, reads, download, lastImport, lastExport>>

vars == <<coreVars, uiVars>>

NoGeoJSON == [type |-> "none"]

\* A value of convertedData: null, a string or an object
Null == [kind |-> "null", text |-> <<>>, object |-> NoGeoJSON]
StringData(s) == [kind |-> "string", text |-> s, object |-> NoGeoJSON]
ObjectData(o) == [kind |-> "object", text |-> <<>>, object |-> o]

NoDownload == [content |-> <<>>, filename |-> <<>>, mimeType |-> ""]
NoExport == [text |-> <<>>, name |-> <<>>]

\* The component as it is mounted: the useState initial values, the import
\* tab shown, nothing read and nothing downloaded
Mounted ==
  /\ tab = "import"
  /\ importStatus = "idle"
  /\ exportStatus = "idle"
  /\ convertedData = Null
  /\ fileName = <<>>
  /\ outputFormat = ""
  /\ errorMessage = ""
  /\ reads = {}
  /\ download = NoDownload
  /\ lastImport = NoGeoJSON
  /\ lastExport = NoExport

Init ==
  /\ fn \in {"parseSP1File", "parseCSVToSP1"}
  /\ content \in IF fn = "parseSP1File"
                 THEN Texts(SP1InputLines, MaxLines)
                 ELSE Texts(CsvInputLines, MaxCsvLines)
  /\ pc = "call"
  /\ lines = <<>>
  /\ i = 1
  /\ inHeader = TRUE
  /\ header = EmptyHeader
  /\ points = <<>>
  /\ columns = <<>>
  /\ error = ""
  /\ outKind = "none"
  /\ text = <<>>
  /\ geojson = NoGeoJSON
  /\ reparsed = SP1Data(EmptyHeader, <<>>)
  /\ Mounted

\* ------------------------------------------------------------------------
\* parseSP1File, step by step
\* ------------------------------------------------------------------------

\* The statements before the loop
SP1Begin ==
  /\ fn = "parseSP1File" /\ pc = "call"
  /\ lines' = NonBlankLines(content)
  /\ i' = 1
  /\ inHeader' = SP1Start.inHeader
  /\ header' = SP1Start.header
  /\ points' = SP1Start.points
  /\ pc' = "loop"
  /\ UNCHANGED uiVars
  /\ UNCHANGED <<fn, content, columns, error, outKind, text, geojson, reparsed>>

\* One iteration of for (const line of lines)
SP1Iterate ==
  /\ fn = "parseSP1File" /\ pc = "loop" /\ i <= Len(lines)
  /\ LET st == SP1Line([inHeader |-> inHeader, header |-> header,
                        points |-> points], lines[i])
     IN  /\ inHeader' = st.inHeader
         /\ header' = st.header
         /\ points' = st.points
  /\ i' = i + 1
  /\ UNCHANGED uiVars
  /\ UNCHANGED <<fn, content, pc, lines, columns, error, outKind, text,
                 geojson, reparsed>>

\* return { header, points }
SP1Return ==
  /\ fn = "parseSP1File" /\ pc = "loop" /\ i > Len(lines)
  /\ pc' = "returned"
  /\ UNCHANGED uiVars
  /\ UNCHANGED <<fn, content, lines, i, inHeader, header, points, columns,
                 error, outKind, text, geojson, reparsed>>

\* ------------------------------------------------------------------------
\* parseCSVToSP1, step by step
\* ------------------------------------------------------------------------

\* if (lines.length === 0) throw new Error('Empty CSV file')
CsvThrowEmpty ==
  /\ fn = "parseCSVToSP1" /\ pc = "call"
  /\ Len(NonBlankLines(content)) = 0
  /\ lines' = NonBlankLines(content)
  /\ error' = EmptyCsvMessage
  /\ pc' = "thrown"
  /\ UNCHANGED uiVars
  /\ UNCHANGED <<fn, content, i, inHeader, header, points, columns, outKind,
                 text, geojson, reparsed>>

\* throw new Error('CSV must contain ID, X, and Y columns')
CsvThrowMissingColumns ==
  /\ fn = "parseCSVToSP1" /\ pc = "call"
  /\ Len(NonBlankLines(content)) # 0
  /\ MissingColumns(CsvColumns(NonBlankLines(content)[1]))
  /\ lines' = NonBlankLines(content)
  /\ columns' = CsvColumns(NonBlankLines(content)[1])
  /\ error' = MissingColumnsMessage
  /\ pc' = "thrown"
  /\ UNCHANGED uiVars
  /\ UNCHANGED <<fn, content, i, inHeader, header, points, outKind, text,
                 geojson, reparsed>>

\* Both checks pass: const points = [], and the loop starts at the second line
CsvBegin ==
  /\ fn = "parseCSVToSP1" /\ pc = "call"
  /\ Len(NonBlankLines(content)) # 0
  /\ ~MissingColumns(CsvColumns(NonBlankLines(content)[1]))
  /\ lines' = NonBlankLines(content)
  /\ columns' = CsvColumns(NonBlankLines(content)[1])
  /\ header' = CsvExportHeader
  /\ points' = <<>>
  /\ i' = 2
  /\ pc' = "loop"
  /\ UNCHANGED uiVars
  /\ UNCHANGED <<fn, content, inHeader, error, outKind, text, geojson,
                 reparsed>>

\* One iteration of for (let i = 1; i < lines.length; i++)
CsvIterate ==
  /\ fn = "parseCSVToSP1" /\ pc = "loop" /\ i <= Len(lines)
  /\ points' = CsvLine(points, columns, lines[i])
  /\ i' = i + 1
  /\ UNCHANGED uiVars
  /\ UNCHANGED <<fn, content, pc, lines, inHeader, header, columns, error,
                 outKind, text, geojson, reparsed>>

\* return { header, points }
CsvReturn ==
  /\ fn = "parseCSVToSP1" /\ pc = "loop" /\ i > Len(lines)
  /\ pc' = "returned"
  /\ UNCHANGED uiVars
  /\ UNCHANGED <<fn, content, lines, i, inHeader, header, points, columns,
                 error, outKind, text, geojson, reparsed>>

\* ------------------------------------------------------------------------
\* The writers, applied to the result of a reader
\* ------------------------------------------------------------------------

Result == SP1Data(header, points)

GenerateSP1 ==
  /\ pc = "returned"
  /\ text' = GenerateSP1Content(Result)
  /\ outKind' = "SP1"
  /\ pc' = "exported"
  /\ UNCHANGED uiVars
  /\ UNCHANGED <<fn, content, lines, i, inHeader, header, points, columns,
                 error, geojson, reparsed>>

ExportGeoJSON ==
  /\ pc = "returned"
  /\ geojson' = ConvertToGeoJSON(Result)
  /\ outKind' = "GeoJSON"
  /\ pc' = "exported"
  /\ UNCHANGED uiVars
  /\ UNCHANGED <<fn, content, lines, i, inHeader, header, points, columns,
                 error, text, reparsed>>

ExportCSV ==
  /\ pc = "returned"
  /\ text' = ConvertToCSV(Result)
  /\ outKind' = "CSV"
  /\ pc' = "exported"
  /\ UNCHANGED uiVars
  /\ UNCHANGED <<fn, content, lines, i, inHeader, header, points, columns,
                 error, geojson, reparsed>>

\* parseSP1File read again on the text generateSP1Content wrote
ReparseSP1 ==
  /\ pc = "exported" /\ outKind = "SP1"
  /\ reparsed' = ParseSP1File(text)
  /\ pc' = "reparsed"
  /\ UNCHANGED uiVars
  /\ UNCHANGED <<fn, content, lines, i, inHeader, header, points, columns,
                 error, outKind, text, geojson>>

Next ==
  \/ SP1Begin \/ SP1Iterate \/ SP1Return
  \/ CsvThrowEmpty \/ CsvThrowMissingColumns \/ CsvBegin
  \/ CsvIterate \/ CsvReturn
  \/ GenerateSP1 \/ ExportGeoJSON \/ ExportCSV \/ ReparseSP1

Spec == Init /\ [][Next]_vars

\* ------------------------------------------------------------------------
\* The SP1Converter component
\* ------------------------------------------------------------------------

\* Largest number of calls suspended at await file.text() at one time.
MaxReads == 2

\* The SP1 files the user selects
SP1Files ==
  {[name |-> Chars("s.sp1"), content |-> Chars("P1 1 2 0")],
   [name |-> Chars("t.txt"), content |-> Chars("P2 3 4")]}

\* The CSV files the user selects: one that converts, one without an ID
\* column
CsvFiles ==
  {[name |-> Chars("a.v2.csv"), content |-> Chars("ID,X,Y\nP1,1,2,Q")],
   [name |-> Chars("b.csv"), content |-> Chars("Name,X,Y\n,3,4")]}

\* The messages of the Error file.text() rejects with; the text is the
\* browser's
ReadErrorMessages == {"The requested file could not be read"}

\* The message of the Error parseCSVToSP1 throws on csvContent, "" when it
\* returns
CsvError(csvContent) ==
  IF Len(NonBlankLines(csvContent)) = 0 THEN EmptyCsvMessage
  ELSE IF MissingColumns(CsvColumns(NonBlankLines(csvContent)[1]))
  THEN MissingColumnsMessage
  ELSE ""

\* What parseCSVToSP1 returns when it does not throw
ParseCSVToSP1(csvContent, hdr) ==
  SP1Data(hdr, CsvLoop(<<>>, CsvColumns(NonBlankLines(csvContent)[1]),
                       NonBlankLines(csvContent), 2))

\* The index of the last "." of name, 0 when it has none
LastDot(name) ==
  IF Includes(name, ".")
  THEN CHOOSE p \in 1..Len(name) :
         name[p] = "." /\ \A q \in (p + 1)..Len(name) : name[q] # "."
  ELSE 0

\* name.replace(/\.[^/.]+$/, ".sp1"): the part from the last "." on is
\* replaced when it is followed by at least one character and by no "/"
ReplaceExtension(name) ==
  IF /\ LastDot(name) > 0
     /\ LastDot(name) < Len(name)
     /\ \A q \in (LastDot(name) + 1)..Len(name) : name[q] # "/"
  THEN SubSeq(name, 1, LastDot(name) - 1) \o Chars(".sp1")
  ELSE name

\* A call suspended at await file.text()
Read(handler, file) == [handler |-> handler, file |-> file]

\* downloadFile: the Blob holds data when it is a string and
\* JSON.stringify(data, null, 2) otherwise
DownloadFile(data, filename, mimeType) ==
  [content |-> IF data.kind = "string" THEN data.text
               ELSE JSONStringify(data.object),
   filename |-> filename,
   mimeType |-> mimeType]

\* The component is mounted and no reader of the core is called
ConverterInit ==
  /\ fn = "SP1Converter"
  /\ content = <<>>
  /\ pc = "call"
  /\ lines = <<>>
  /\ i = 1
  /\ inHeader = TRUE
  /\ header = EmptyHeader
  /\ points = <<>>
  /\ columns = <<>>
  /\ error = ""
  /\ outKind = "none"
  /\ text = <<>>
  /\ geojson = NoGeoJSON
  /\ reparsed = SP1Data(EmptyHeader, <<>>)
  /\ Mounted

\* The user shows the other tab; the content of the hidden tab is unmounted
SelectTab ==
  /\ tab' = IF tab = "import" THEN "export" ELSE "import"
  /\ UNCHANGED <<importStatus, exportStatus, convertedData, fileName,
                 outputFormat, errorMessage, reads, download, lastImport,
                 lastExport>>
  /\ UNCHANGED coreVars

\* handleSP1Import up to await file.text()
HandleSP1Import ==
  /\ tab = "import"
  /\ Cardinality(reads) < MaxReads
  /\ \E file \in SP1Files :
       /\ Read("handleSP1Import", file) \notin reads
       /\ importStatus' = "processing"
       /\ fileName' = file.name
       /\ reads' = reads \cup {Read("handleSP1Import", file)}
  /\ UNCHANGED <<tab, exportStatus, convertedData, outputFormat, errorMessage,
                 download, lastImport, lastExport>>
  /\ UNCHANGED coreVars

\* handleSP1Import after file.text() resolved: the try block
SP1ImportResolved ==
  /\ \E r \in reads :
       /\ r.handler = "handleSP1Import"
       /\ reads' = reads \ {r}
       /\ convertedData' =
            ObjectData(ConvertToGeoJSON(ParseSP1File(r.file.content)))
       /\ lastImport' = ConvertToGeoJSON(ParseSP1File(r.file.content))
  /\ outputFormat' = "GeoJSON"
  /\ importStatus' = "success"
  /\ UNCHANGED <<tab, exportStatus, fileName, errorMessage, download,
                 lastExport>>
  /\ UNCHANGED coreVars

\* handleSP1Import after file.text() rejected: the catch block
SP1ImportRejected ==
  /\ \E r \in reads :
       /\ r.handler = "handleSP1Import"
       /\ reads' = reads \ {r}
  /\ errorMessage' \in ReadErrorMessages
  /\ importStatus' = "error"
  /\ UNCHANGED <<tab, exportStatus, convertedData, fileName, outputFormat,
                 download, lastImport, lastExport>>
  /\ UNCHANGED coreVars

\* handleCSVExport up to await file.text()
HandleCSVExport ==
  /\ tab = "export"
  /\ Cardinality(reads) < MaxReads
  /\ \E file \in CsvFiles :
       /\ Read("handleCSVExport", file) \notin reads
       /\ exportStatus' = "processing"
       /\ fileName' = ReplaceExtension(file.name)
       /\ reads' = reads \cup {Read("handleCSVExport", file)}
  /\ UNCHANGED <<tab, importStatus, convertedData, outputFormat, errorMessage,
                 download, lastImport, lastExport>>
  /\ UNCHANGED coreVars

\* handleCSVExport after file.text() resolved, parseCSVToSP1 returning: the
\* try block
CSVExportResolved ==
  /\ \E r \in reads :
       /\ r.handler = "handleCSVExport"
       /\ CsvError(r.file.content) = ""
       /\ reads' = reads \ {r}
       /\ convertedData' =
            StringData(GenerateSP1Content(
              ParseCSVToSP1(r.file.content, CsvExportHeader)))
       /\ lastExport' =
            [text |-> GenerateSP1Content(
                        ParseCSVToSP1(r.file.content, CsvExportHeader)),
             name |-> ReplaceExtension(r.file.name)]
  /\ outputFormat' = "SP1"
  /\ exportStatus' = "success"
  /\ UNCHANGED <<tab, importStatus, fileName, errorMessage, download,
                 lastImport>>
  /\ UNCHANGED coreVars

\* handleCSVExport after file.text() resolved, parseCSVToSP1 throwing: the
\* catch block
CSVExportThrown ==
  /\ \E r \in reads :
       /\ r.handler = "handleCSVExport"
       /\ CsvError(r.file.content) # ""
       /\ reads' = reads \ {r}
       /\ errorMessage' = CsvError(r.file.content)
  /\ exportStatus' = "error"
  /\ UNCHANGED <<tab, importStatus, convertedData, fileName, outputFormat,
                 download, lastImport, lastExport>>
  /\ UNCHANGED coreVars

\* handleCSVExport after file.text() rejected: the catch block
CSVExportRejected ==
  /\ \E r \in reads :
       /\ r.handler = "handleCSVExport"
       /\ reads' = reads \ {r}
  /\ errorMessage' \in ReadErrorMessages
  /\ exportStatus' = "error"
  /\ UNCHANGED <<tab, importStatus, convertedData, fileName, outputFormat,
                 download, lastImport, lastExport>>
  /\ UNCHANGED coreVars

\* The Download button of the import tab, rendered when importStatus is
\* 'success'
HandleImportDownload ==
  /\ tab = "import"
  /\ importStatus = "success"
  /\ download' =
       IF convertedData = Null THEN download
       ELSE IF outputFormat = "GeoJSON"
       THEN DownloadFile(convertedData, Chars("converted.geojson"),
                         "application/geo+json")
       ELSE DownloadFile(convertedData, Chars("converted.csv"), "text/csv")
  /\ UNCHANGED <<tab, importStatus, exportStatus, convertedData, fileName,
                 outputFormat, errorMessage, reads, lastImport, lastExport>>
  /\ UNCHANGED coreVars

\* The Download button of the export tab, rendered when exportStatus is
\* 'success'
HandleExportDownload ==
  /\ tab = "export"
  /\ exportStatus = "success"
  /\ download' =
       IF convertedData = Null THEN download
       ELSE DownloadFile(convertedData, fileName, "text/plain")
  /\ UNCHANGED <<tab, importStatus, exportStatus, convertedData, fileName,
                 outputFormat, errorMessage, reads, lastImport, lastExport>>
  /\ UNCHANGED coreVars

ConverterNext ==
  \/ SelectTab
  \/ HandleSP1Import \/ SP1ImportResolved \/ SP1ImportRejected
  \/ HandleCSVExport \/ CSVExportResolved \/ CSVExportThrown
  \/ CSVExportRejected
  \/ HandleImportDownload \/ HandleExportDownload

ConverterSpec == ConverterInit /\ [][ConverterNext]_vars

\* ------------------------------------------------------------------------
\* Properties of parseSP1File
\* ------------------------------------------------------------------------

IsCommentLine(line) == StartsWith(line, "#")

HeaderFields(h) == <<h.version, h.survey, h.datum, h.projection>>

\* The line the loop of parseSP1File reads in a step that is one iteration
IsIteration == pc = "loop" /\ i' = i + 1

\* C1: in parseSP1File header mode is a one-way switch.  It starts on; a
\* comment line never changes it; a line with a colon read in header mode
\* keeps it on; the first line that is neither a comment nor holds a colon
\* turns it off, also when the line has fewer than 3 tokens and gives no
\* point; once off it stays off, and every later line that is not a comment
\* leaves version, survey, datum and projection as they are and is parsed
\* as a data line (it appends the point whose id is its first token when it
\* has at least 3 tokens, and nothing otherwise).
C1_HeaderModeOneWay ==
  [][fn = "parseSP1File" =>
       /\ (pc = "call" /\ pc' = "loop") => inHeader'
       /\ IsIteration =>
            /\ IsCommentLine(lines[i]) => (inHeader' = inHeader)
            /\ ~inHeader => ~inHeader'
            /\ (~IsCommentLine(lines[i]) /\ ~Includes(lines[i], ":"))
                 => ~inHeader'
            /\ (inHeader /\ ~IsCommentLine(lines[i])
                /\ Includes(lines[i], ":"))
                 => (inHeader' /\ points' = points)
            /\ (~inHeader /\ ~IsCommentLine(lines[i])) =>
                 /\ HeaderFields(header') = HeaderFields(header)
                 /\ IF Len(SplitSpace(lines[i])) >= 3
                    THEN /\ Len(points') = Len(points) + 1
                         /\ SubSeq(points', 1, Len(points)) = points
                         /\ points'[Len(points')].id = SplitSpace(lines[i])[1]
                    ELSE points' = points
    ]_vars

\* A run of parseSP1File in which a line of fewer than 3 tokens ended header
\* mode and a later "Survey: ..." line was read as a data line: it gave a
\* point and header.survey stayed absent.
C1_Witness ==
  /\ fn = "parseSP1File" /\ pc = "returned" /\ ~inHeader
  /\ header.survey = Undefined
  /\ \E j, k \in 1..Len(lines) :
       /\ j < k
       /\ ~IsCommentLine(lines[j]) /\ ~Includes(lines[j], ":")
       /\ Len(SplitSpace(lines[j])) < 3
       /\ \A m \in 1..(j - 1) : IsCommentLine(lines[m])
       /\ Includes(lines[k], ":")
       /\ ToLowerCase(HeaderKey(lines[k])) = Chars("survey")
       /\ \E n \in 1..Len(points) : points[n].id = SplitSpace(lines[k])[1]

\* C2: writing the result of parseSP1File with generateSP1Content and
\* parsing the written text again gives the same number of points, with the
\* same ids in the same order.
C2_RoundTripKeepsIds ==
  (fn = "parseSP1File" /\ pc = "reparsed") =>
    /\ Len(reparsed.points) = Len(points)
    /\ \A k \in 1..Len(points) : reparsed.points[k].id = points[k].id

\* ------------------------------------------------------------------------
\* Properties of parseCSVToSP1
\* ------------------------------------------------------------------------

IsBlank(line) == \A k \in 1..Len(line) : IsWhiteSpace(line[k])

\* The content has no non-blank line
BlankText(t) == \A k \in 1..Len(Split(t, "\n")) : IsBlank(Split(t, "\n")[k])

\* The first non-blank line of a content that has one
FirstLine(t) ==
  Split(t, "\n")[CHOOSE k \in 1..Len(Split(t, "\n")) :
                   /\ ~IsBlank(Split(t, "\n")[k])
                   /\ \A m \in 1..(k - 1) : IsBlank(Split(t, "\n")[m])]

\* A line has a column whose trimmed name is the word, in any case
HasColumn(line, word) ==
  \E k \in 1..Len(Split(line, ",")) :
    ToLowerCase(Trim(Split(line, ",")[k])) = Chars(word)

HasRequiredColumns(line) ==
  HasColumn(line, "id") /\ HasColumn(line, "x") /\ HasColumn(line, "y")

\* C3: parseCSVToSP1 throws the empty-input error exactly when the content
\* has no non-blank line, and otherwise the missing-columns error exactly
\* when the first non-blank line lacks a column named id, x or y (whole
\* name, any case).  It throws before any data row is read, so a failing
\* call has built no point, and a call that passes both checks does not
\* throw.
C3_CsvErrors ==
  (fn = "parseCSVToSP1" /\ pc # "call") =>
    /\ (error = EmptyCsvMessage) <=> BlankText(content)
    /\ (error = MissingColumnsMessage) <=>
         (~BlankText(content) /\ ~HasRequiredColumns(FirstLine(content)))
    /\ (pc = "thrown") <=> (error # "")
    /\ (error # "") => (points = <<>> /\ i = 1 /\ outKind = "none")

\* A call that threw the missing-columns error on a content with data rows
C3_Witness ==
  /\ fn = "parseCSVToSP1" /\ pc = "thrown"
  /\ error = MissingColumnsMessage
  /\ Len(lines) >= 2
  /\ HasColumn(lines[1], "x") /\ HasColumn(lines[1], "y")
  /\ Len(Split(lines[2], ",")) >= 3

\* ------------------------------------------------------------------------
\* Properties of convertToCSV
\* ------------------------------------------------------------------------

\* The lines of the CSV text: the header row, then one row per point
CsvTextRow(k) == Split(text, "\n")[k]

\* C4: in every data row convertToCSV writes, the fourth field is the
\* point's elevation whenever the point has one, and is empty only when the
\* point has none.
C4_ElevationField ==
  outKind = "CSV" =>
    \A k \in 1..Len(points) :
      Split(CsvTextRow(k + 1), ",")[4]
        = IF points[k].elevation.k # "undef"
          THEN NumberString(points[k].elevation)
          ELSE <<>>

\* The attribute keys that occur in at least one point
KeysOf(pts) ==
  UNION {{pts[k].attributes.kv[j][1] : j \in 1..Len(pts[k].attributes.kv)} :
           k \in 1..Len(pts)}

\* The keys of a set in ascending order, each once
Ascending(keys) ==
  [n \in 1..Cardinality(keys) |->
     CHOOSE key \in keys :
       Cardinality({other \in keys : StringLess(other, key)}) = n - 1]

\* C5: the header row convertToCSV writes is ID,X,Y,Elevation followed by
\* every attribute key that occurs in a point, each once, in ascending
\* order; and every data row, in the order of the points, carries after its
\* four fixed fields one field per such key: the point's value for the key,
\* or nothing when the point has no such key.
C5_AttributeColumns ==
  outKind = "CSV" =>
    LET keys == Ascending(KeysOf(points))
    IN  /\ Len(Split(text, "\n")) = Len(points) + 2
        /\ CsvTextRow(1) = Join(<<Chars("ID"), Chars("X"), Chars("Y"),
                                  Chars("Elevation")>> \o keys, <<",">>)
        /\ \A k \in 1..Len(points) :
             /\ Split(CsvTextRow(k + 1), ",")[1] = TemplateString(points[k].id)
             /\ Len(Split(CsvTextRow(k + 1), ",")) = 4 + Len(keys)
             /\ \A n \in 1..Len(keys) :
                  Split(CsvTextRow(k + 1), ",")[4 + n]
                    = IF ObjHas(points[k].attributes.kv, keys[n])
                      THEN ObjGet(points[k].attributes.kv, keys[n])
                      ELSE <<>>

\* ------------------------------------------------------------------------
\* Properties of convertToGeoJSON
\* ------------------------------------------------------------------------

\* C6: convertToGeoJSON gives one Feature per point, in the order of the
\* points, and the coordinates of each are [x, y, e], e being the point's
\* elevation when it has one and 0 when it has none.
C6_OneFeaturePerPoint ==
  outKind = "GeoJSON" =>
    /\ Len(geojson.features) = Len(points)
    /\ \A k \in 1..Len(points) :
         geojson.features[k].geometry.coordinates
           = <<points[k].x, points[k].y,
               IF points[k].elevation.k # "undef"
               THEN points[k].elevation ELSE Finite(0)>>

\* Features of three points: two with the same id, of which the first has
\* elevation 0, and one with no elevation
C6_Witness ==
  /\ outKind = "GeoJSON" /\ Len(points) = 3
  /\ points[1].id = points[2].id
  /\ points[1].elevation = Finite(0)
  /\ points[3].elevation.k = "undef"
  /\ points[3].id # points[1].id
  /\ geojson.features[3].geometry.coordinates[3] = Finite(0)

\* C7: the Feature of every point has properties.id equal to the point's id
\* and properties.elevation equal to the point's elevation, and holds every
\* attribute entry of the point.
C7_FeatureProperties ==
  outKind = "GeoJSON" =>
    \A k \in 1..Len(points) :
      LET properties == geojson.features[k].properties
      IN  /\ ObjGet(properties, Chars("id")) = JOfString(points[k].id)
          /\ ObjGet(properties, Chars("elevation"))
               = JOfNumber(points[k].elevation)
          /\ \A n \in 1..Len(points[k].attributes.kv) :
               /\ ObjHas(properties, points[k].attributes.kv[n][1])
               /\ ObjGet(properties, points[k].attributes.kv[n][1])
                    = JOfString(points[k].attributes.kv[n][2])

\* ------------------------------------------------------------------------
\* Properties of the readers' results
\* ------------------------------------------------------------------------

\* The index of the first line that is neither a comment nor holds a colon
FirstDataLine(ls) ==
  IF \E k \in 1..Len(ls) : ~IsCommentLine(ls[k]) /\ ~Includes(ls[k], ":")
  THEN CHOOSE k \in 1..Len(ls) :
         /\ ~IsCommentLine(ls[k]) /\ ~Includes(ls[k], ":")
         /\ \A m \in 1..(k - 1) : IsCommentLine(ls[m]) \/ Includes(ls[m], ":")
  ELSE Len(ls) + 1

\* The indices of the non-blank lines that are neither comment lines nor
\* lines consumed as header lines
DataLines(ls) ==
  {k \in 1..Len(ls) :
     /\ ~IsCommentLine(ls[k])
     /\ ~(Includes(ls[k], ":") /\ k < FirstDataLine(ls))}

\* The trimmed non-blank lines of a text
SourceLines(t) ==
  SelectSeq([k \in 1..Len(Split(t, "\n")) |-> Trim(Split(t, "\n")[k])],
            LAMBDA l : ~IsBlank(l))

\* C8: parseSP1File never throws; on empty content it returns an empty
\* header and no points; it returns at most as many points as there are
\* non-blank lines that are neither comment lines nor lines consumed as
\* header lines, and the points are in the order of their source lines.
C8_SP1ReaderTotal ==
  fn = "parseSP1File" =>
    /\ pc # "thrown" /\ error = ""
    /\ (pc = "returned" /\ content = <<>>) =>
         (header = EmptyHeader /\ points = <<>>)
    /\ pc = "returned" =>
         /\ Len(points) <= Cardinality(DataLines(SourceLines(content)))
         /\ \E at \in [1..Len(points) -> DataLines(SourceLines(content))] :
              /\ \A a, b \in 1..Len(points) : a < b => at[a] < at[b]
              /\ \A a \in 1..Len(points) :
                   points[a].id = SplitSpace(SourceLines(content)[at[a]])[1]

\* A result with fewer points than data lines: a header line, then a line
\* too short to give a point, then a point line
C8_Witness ==
  /\ fn = "parseSP1File" /\ pc = "returned"
  /\ Len(lines) = 3
  /\ header.survey # Undefined
  /\ Cardinality(DataLines(lines)) = 2
  /\ Len(points) = 1

\* C9: every point parseSP1File or parseCSVToSP1 returns has an id that is a
\* non-empty string.
C9_IdNonEmpty ==
  pc = "returned" =>
    \A k \in 1..Len(points) : points[k].id # Undefined /\ points[k].id # <<>>

\* The rest of a line after its first colon
AfterFirstColon(line) ==
  SubSeq(line, IndexFrom(line, 1, {":"}, TRUE) + 1, Len(line))

\* C10: a line read in header mode whose key is version, survey, datum or
\* projection (in any case) stores as the header value the whole rest of
\* the line after its first colon, trimmed.
C10_ValueAfterFirstColon ==
  [][(fn = "parseSP1File" /\ IsIteration /\ inHeader
      /\ ~IsCommentLine(lines[i]) /\ Includes(lines[i], ":")) =>
       LET key == ToLowerCase(HeaderKey(lines[i]))
           rest == Trim(AfterFirstColon(lines[i]))
       IN  /\ key = Chars("version") => header'.version = rest
           /\ key = Chars("survey") => header'.survey = rest
           /\ key = Chars("datum") => header'.datum = rest
           /\ key = Chars("projection") => header'.projection = rest
    ]_vars

\* C11: every point parseSP1File or parseCSVToSP1 returns that has an
\* elevation has a finite number as its elevation: a token or cell that
\* parses to NaN or to an infinite value leaves the elevation absent.
C11_ElevationFinite ==
  pc = "returned" =>
    \A k \in 1..Len(points) :
      points[k].elevation # UndefinedNumber => points[k].elevation.k = "fin"

\* ------------------------------------------------------------------------
\* Properties of the SP1Converter component
\* ------------------------------------------------------------------------

EndsWith(s, suffix) ==
  /\ Len(s) >= Len(suffix)
  /\ SubSeq(s, Len(s) - Len(suffix) + 1, Len(s)) = suffix

\* C12: after any interleaving of SP1 imports and CSV exports, the Download
\* button of the import tab delivers the GeoJSON of the last SP1 import that
\* succeeded under a .geojson name, and the Download button of the export
\* tab delivers the SP1 text of the last CSV export that succeeded under
\* that CSV file's .sp1 name.
C12_DownloadsOwnResult ==
  [][/\ HandleImportDownload =>
          /\ download'.content = JSONStringify(lastImport)
          /\ EndsWith(download'.filename, Chars(".geojson"))
     /\ HandleExportDownload =>
          /\ download'.content = lastExport.text
          /\ download'.filename = lastExport.name
    ]_vars

=============================================================================
